---- MODULE Spec2Model ----
(***************************************************************************)
(* Model of the query router (backend/agents/orchestrator.py) and of the   *)
(* document research agent (backend/agents/research_agent.py).             *)
(*                                                                         *)
(* The language model, the text extractors, the splitter, the embedding    *)
(* model and the Chroma collection are external: every call to one of them *)
(* is an input of the operation, drawn from the outcomes that call can     *)
(* have (a value or a raised exception).  Each operation records the       *)
(* external calls it made, in order, in `calls`.                           *)
(***************************************************************************)
EXTENDS Integers, Sequences, FiniteSets, TLC

(* ------------------------------ bounds -------------------------------- *)
\* Largest number of chunks a document splits into.
MaxChunks == 6
\* Number of successful ingestions explored (each one is a batch of the collection).
MaxIngests == 2
\* Largest number of chunks a vector store persisted by an earlier process holds.
PriorChunks == 1

(* ----------------------- program constants ---------------------------- *)
\* research_agent.py:161  self.docs[:4]
KeywordChunks == 4
\* research_agent.py:170  as_retriever() with the default search k
RetrieverK == 4

(* --------------------------- input values ----------------------------- *)
Queries == {"q1", "q2"}
FileTypes == {"pdf", "docx", "csv"}

\* A paragraph of extracted text: a block of content of one file, or whitespace.
Blank == [file |-> 0, pos |-> 0]
Para(f, i) == [file |-> f, pos |-> i]

\* The text of file f: f content paragraphs, each of them a chunk's worth.
TextOf(f) == [i \in 1..f |-> Para(f, i)]

\* The sizes of the files at hand, in chunks: below, at and above KeywordChunks.
FileSizes == {1, KeywordChunks, MaxChunks}

\* The texts an extraction can yield: empty, whitespace only, whitespace
\* followed by content, and the content of each file.
Texts == {<< >>, <<Blank>>, <<Blank>> \o TextOf(1)} \cup {TextOf(f) : f \in FileSizes}

\* RouteQuery.destination and ResearchQueryType.category are declared `str`:
\* the enum of the Field is schema documentation, so the parsed value can be a
\* string outside the enum ("other").  "NONE" is a call that returns no parsed
\* object, "ERROR" a call that raises.
OffEnum == "other"
RouteOutcomes == {"data", "research", OffEnum, "NONE", "ERROR"}
CategoryOutcomes == {"summary", "keywords", "abstract", "question", OffEnum, "NONE", "ERROR"}

\* Keyword lists the structured call can return.
KeywordLists == {<< >>, <<"rag">>, <<"rag", "llm">>}

\* Where an ingestion can raise.
IngestFailures == {"none", "extract", "embeddings", "index"}

(* ----------------------------- messages ------------------------------- *)
UnsupportedMsg == "Unsupported file type."
EmptyMsg == "The document is empty."
IngestedMsg == "Document ingested and ready for analysis."
IngestErrorMsg == "Error ingesting the document: e"
NoDocumentMsg == "No document has been ingested yet."
NoContentMsg == "No document content available."
SummaryText == "output_text"
AbstractText == "content"
AnswerText == "answer"

Ret(m) == [kind |-> "return", message |-> m]
Raise == [kind |-> "raise", message |-> "Exception"]

\* One external call (or the entry of a strategy): what was called, its
\* argument, the chunks given as context (or retrieved), its output, and
\* whether it returned normally.
Ev(op, arg, ctx, out, ok) ==
  [op |-> op, arg |-> arg, ctx |-> ctx, out |-> IF ok THEN out ELSE << >>, ok |-> ok]
Enter(name) == Ev("strategy", name, << >>, << >>, TRUE)

VARIABLES
  docs,        \* self.docs: the chunk list
  vector_db,   \* self.vector_db: None or a handle on the persisted collection
  collection,  \* the Chroma collection under backend/vector_store
  dirExists,   \* whether backend/vector_store exists
  batch,       \* number of ingestions that added to the collection
  called,      \* ingest_document has been called on this instance
  op,          \* the last operation
  args,        \* its arguments and the classification outcome it met
  calls,       \* the external calls it made, in order
  result,      \* what it returned or raised
  pre          \* the corpus before it

vars == <<docs, vector_db, collection, dirExists, batch, called, op, args, calls, result, pre>>

NoneDB == [open |-> FALSE, batch |-> 0]
Handle(b) == [open |-> TRUE, batch |-> b]

State == [docs |-> docs, vector_db |-> vector_db, collection |-> collection,
          dirExists |-> dirExists, batch |-> batch]

NoArgs == [query |-> "", cls |-> "", file_type |-> "", text |-> << >>]

(* ------------------------ external capabilities ----------------------- *)
Min(a, b) == IF a < b THEN a ELSE b

\* full_text.strip() is empty: every paragraph is whitespace.
IsBlankText(t) == \A i \in 1..Len(t) : t[i] = Blank

NotBlank(p) == p # Blank

\* RecursiveCharacterTextSplitter.create_documents: the content paragraphs in
\* document order, whitespace pieces stripped.
create_documents(t) == SelectSeq(t, NotBlank)

\* What Chroma.from_documents adds to the collection named by persist_directory:
\* one entry per chunk under fresh ids (here: the batch number).
Entries(b, ds) == {[batch |-> b, chunk |-> ds[i]] : i \in 1..Len(ds)}

\* The stub embedding model: "q1" is nearest to the oldest entries, "q2" to the
\* newest; within a batch, to the earliest, respectively latest, chunk.
Distance(q, e) ==
  IF q = "q1" THEN e.batch * 100 + e.chunk.pos ELSE 0 - (e.batch * 100 + e.chunk.pos)

\* retriever.invoke(question): the k nearest entries of the collection, nearest first.
RECURSIVE TopK(_, _, _)
TopK(S, q, k) ==
  IF k = 0 \/ S = {} THEN << >>
  ELSE LET e == CHOOSE x \in S : \A y \in S : Distance(q, x) <= Distance(q, y)
       IN <<e.chunk>> \o TopK(S \ {e}, q, k - 1)

\* ", ".join(keywords)
RECURSIVE JoinComma(_)
JoinComma(s) ==
  IF s = << >> THEN ""
  ELSE IF Len(s) = 1 THEN s[1]
  ELSE s[1] \o ", " \o JoinComma(Tail(s))

(* ------------------------------ strategies ---------------------------- *)
\* In each strategy `fail` is the number of the external call that raises
\* (0, or a number beyond the calls made: none does).

\* summarize_paper: the map_reduce chain over self.docs, one map call per chunk
\* in order, then the reduce call over all of them.
summarize_paper(st, fail) ==
  LET n == Len(st.docs)
      last == IF fail \in 1..n THEN fail ELSE n
      maps == [i \in 1..last |-> Ev("generate", "map", <<st.docs[i]>>, <<SummaryText>>, i # fail)]
      reduce == Ev("generate", "reduce", st.docs, <<SummaryText>>, fail # n + 1)
  IN IF fail \in 1..n
       THEN [calls |-> <<Enter("summarize_paper")>> \o maps, result |-> Raise]
       ELSE [calls |-> <<Enter("summarize_paper")>> \o maps \o <<reduce>>,
             result |-> IF reduce.ok THEN Ret(SummaryText) ELSE Raise]

\* summarize_abstract: one call over the first chunk.
summarize_abstract(st, fail) ==
  IF st.docs = << >>
    THEN [calls |-> <<Enter("summarize_abstract")>>, result |-> Ret(NoContentMsg)]
    ELSE LET g == Ev("generate", "abstract", <<st.docs[1]>>, <<AbstractText>>, fail # 1)
         IN [calls |-> <<Enter("summarize_abstract"), g>>,
             result |-> IF g.ok THEN Ret(AbstractText) ELSE Raise]

\* Variant of KeywordContext: the slice is forgotten, every chunk is sent.
KeywordContext_unsliced(ds) == ds

\* self.docs[:4]
KeywordContext(ds) == SubSeq(ds, 1, Min(Len(ds), KeywordChunks))

\* extract_keywords: one structured call over the first four chunks; kw is the
\* list the call returns.
extract_keywords(st, fail, kw) ==
  IF st.docs = << >>
    THEN [calls |-> <<Enter("extract_keywords")>>, result |-> Ret(NoContentMsg)]
    ELSE LET g == Ev("generate", "keywords", KeywordContext(st.docs), kw, fail # 1)
         IN [calls |-> <<Enter("extract_keywords"), g>>,
             result |-> IF g.ok THEN Ret(JoinComma(kw)) ELSE Raise]

\* answer_question: retrieve with the question, then one call over the
\* retrieved chunks.  With self.vector_db None, as_retriever raises.
answer_question(st, question, fail) ==
  IF ~st.vector_db.open
    THEN [calls |-> <<Enter("answer_question")>>, result |-> Raise]
    ELSE LET r == Ev("retrieve", question,
                     IF fail = 1 THEN << >> ELSE TopK(st.collection, question, RetrieverK),
                     << >>, fail # 1)
             g == Ev("generate", "answer", r.ctx, <<AnswerText>>, fail # 2)
         IN IF ~r.ok
              THEN [calls |-> <<Enter("answer_question"), r>>, result |-> Raise]
              ELSE [calls |-> <<Enter("answer_question"), r, g>>,
                    result |-> IF g.ok THEN Ret(AnswerText) ELSE Raise]

(* ----------------------------- handle_query --------------------------- *)
\* The try block of handle_query (lines 111-122): the classification call,
\* then the strategy the category selects.  A call that raises, or that
\* returns no object (query_type.category then raises), leaves the block
\* before any strategy is entered; so does a strategy that raises.
handle_query_try(st, query, env) ==
  IF env.cls \in {"ERROR", "NONE"} THEN [calls |-> << >>, result |-> Raise]
  ELSE IF env.cls = "summary" THEN summarize_paper(st, env.fail1)
  ELSE IF env.cls = "keywords" THEN extract_keywords(st, env.fail1, env.kw)
  ELSE IF env.cls = "abstract" THEN summarize_abstract(st, env.fail1)
  ELSE answer_question(st, query, env.fail1)

\* What handle_query calls and returns: the guard on self.vector_db, the
\* try block, and the except clause (lines 123-125), which answers the query
\* with answer_question whatever raised inside the block.
handle_query_run(st, query, env) ==
  IF ~st.vector_db.open THEN [calls |-> << >>, result |-> Ret(NoDocumentMsg)]
  ELSE LET c == Ev("classify", query, << >>, <<env.cls>>, env.cls # "ERROR")
           t == handle_query_try(st, query, env)
           h == answer_question(st, query, env.fail2)
       IN IF t.result.kind = "raise"
            THEN [calls |-> <<c>> \o t.calls \o h.calls, result |-> h.result]
            ELSE [calls |-> <<c>> \o t.calls, result |-> t.result]

\* Variant of handle_query: the corpus is dropped when the query fails.
handle_query_resetting(st, query, env) ==
  LET r == handle_query_run(st, query, env)
  IN [docs |-> IF r.result.kind = "raise" THEN << >> ELSE st.docs,
      vector_db |-> IF r.result.kind = "raise" THEN NoneDB ELSE st.vector_db,
      collection |-> st.collection,
      calls |-> r.calls, result |-> r.result]

\* handle_query as a whole: it assigns neither self.docs nor self.vector_db
\* and writes nothing to the collection.
handle_query(st, query, env) ==
  LET r == handle_query_run(st, query, env)
  IN [docs |-> st.docs, vector_db |-> st.vector_db, collection |-> st.collection,
      calls |-> r.calls, result |-> r.result]

(* ---------------------------- ingest_document ------------------------- *)
Extract(file_type, ok) == Ev("extract", file_type, << >>, << >>, ok)

\* Variant of ingest_rejected: the corpus is cleared before the early return.
ingest_rejected_clearing(st, cs, msg) ==
  [st |-> [st EXCEPT !.docs = << >>, !.vector_db = NoneDB], calls |-> cs, result |-> Ret(msg)]

\* The two early returns of ingest_document (lines 65-69): a text result,
\* nothing assigned.
ingest_rejected(st, cs, msg) ==
  [st |-> st, calls |-> cs, result |-> Ret(msg)]

\* The except clause of ingest_document (lines 83-85) after the agent's fields
\* are as in st.
ingest_failed(st, cs) ==
  [st |-> st, calls |-> cs, result |-> Ret(IngestErrorMsg)]

\* ingest_document(file_path, file_type): text is what the extractor yields for
\* the file, fail the place where the call raises.
ingest_document(st, file_type, text, fail) ==
  IF file_type \notin {"pdf", "docx"} THEN ingest_rejected(st, << >>, UnsupportedMsg)
  ELSE IF fail = "extract" THEN ingest_failed(st, <<Extract(file_type, FALSE)>>)
  ELSE IF IsBlankText(text) THEN ingest_rejected(st, <<Extract(file_type, TRUE)>>, EmptyMsg)
  ELSE
    LET new == create_documents(text)
        split == Ev("split", file_type, new, << >>, TRUE)
        \* line 72: self.docs is assigned before anything is embedded
        st1 == [st EXCEPT !.docs = new]
    IN IF fail = "embeddings"
         THEN ingest_failed(st1, <<Extract(file_type, TRUE), split,
                                   Ev("embeddings", "", << >>, << >>, FALSE)>>)
       ELSE IF fail = "index"
         \* from_documents opens the persistent client, then fails to embed
         THEN ingest_failed([st1 EXCEPT !.dirExists = TRUE],
                            <<Extract(file_type, TRUE), split,
                              Ev("embeddings", "", << >>, << >>, TRUE),
                              Ev("index", "", new, << >>, FALSE)>>)
       ELSE [st |-> [docs |-> new,
                     vector_db |-> Handle(st.batch + 1),
                     \* the collection of persist_directory is opened, not
                     \* recreated: the chunks are added to what it holds
                     collection |-> st.collection \cup Entries(st.batch + 1, new),
                     dirExists |-> TRUE,
                     batch |-> st.batch + 1],
             calls |-> <<Extract(file_type, TRUE), split,
                         Ev("embeddings", "", << >>, << >>, TRUE),
                         Ev("index", "", new, << >>, TRUE)>>,
             result |-> Ret(IngestedMsg)]

(* ------------------------------ route_query --------------------------- *)
\* route_query: the destination the chain returns, "research" when the call
\* raises or returns no object.
route_query(query, dest) ==
  [calls |-> <<Ev("classify", query, << >>, <<dest>>, dest # "ERROR")>>,
   result |-> IF dest \in {"ERROR", "NONE"} THEN Ret("research") ELSE Ret(dest)]

(* ------------------------------- the agent ---------------------------- *)
Snapshot == [docs |-> docs, vector_db |-> vector_db, collection |-> collection]

NoSnapshot == [docs |-> << >>, vector_db |-> NoneDB, collection |-> {}]

\* ResearchAgent.__init__: the handle is opened when the directory exists.
ResearchAgentInit(exists) ==
  /\ docs' = << >>
  /\ vector_db' = IF exists THEN Handle(0) ELSE NoneDB
  /\ called' = FALSE

\* What an earlier process can have left under backend/vector_store.
PriorStores ==
  {[exists |-> FALSE, collection |-> {}]}
    \cup {[exists |-> TRUE, collection |-> Entries(0, [i \in 1..n |-> Para(0, i)])] : n \in 0..PriorChunks}

Init ==
  \E p \in PriorStores :
    /\ docs = << >>
    /\ vector_db = IF p.exists THEN Handle(0) ELSE NoneDB
    /\ called = FALSE
    /\ collection = p.collection
    /\ dirExists = p.exists
    /\ batch = 0
    /\ op = "init"
    /\ args = NoArgs
    /\ calls = << >>
    /\ result = Ret("")
    /\ pre = NoSnapshot

\* The process is restarted: a new agent is constructed over the same directory.
Restart ==
  /\ op = "idle"
  /\ ResearchAgentInit(dirExists)
  /\ op' = "init"
  /\ args' = NoArgs
  /\ calls' = << >>
  /\ result' = Ret("")
  /\ pre' = NoSnapshot
  /\ UNCHANGED <<collection, dirExists, batch>>

\* The caller takes the result of the call; the agent waits for the next one
\* (calls run one at a time, each to completion).
Reply ==
  /\ op # "idle"
  /\ op' = "idle"
  /\ args' = NoArgs
  /\ calls' = << >>
  /\ result' = Ret("")
  /\ pre' = NoSnapshot
  /\ UNCHANGED <<docs, vector_db, collection, dirExists, batch, called>>

IngestDocument ==
  /\ op = "idle"
  /\ batch < MaxIngests
  /\ \E file_type \in FileTypes, text \in Texts, fail \in IngestFailures :
       LET r == ingest_document(State, file_type, text, fail)
       IN /\ docs' = r.st.docs
          /\ vector_db' = r.st.vector_db
          /\ collection' = r.st.collection
          /\ dirExists' = r.st.dirExists
          /\ batch' = r.st.batch
          /\ called' = TRUE
          /\ op' = "ingest_document"
          /\ args' = [NoArgs EXCEPT !.file_type = file_type, !.text = text]
          /\ calls' = r.calls
          /\ result' = r.result
          /\ pre' = Snapshot

\* The calls of a strategy that can raise, by the category that selects it.
FailPoints(st, cls) ==
  IF cls \in {"ERROR", "NONE"} THEN {0}
  ELSE IF cls = "summary" THEN 0..(Len(st.docs) + 1)
  ELSE IF cls \in {"keywords", "abstract"} THEN 0..1
  ELSE 0..2

HandleQuery ==
  /\ op = "idle"
  /\ \E query \in Queries, cls \in CategoryOutcomes :
       \E f1 \in FailPoints(State, cls), f2 \in 0..2,
          kw \in IF cls = "keywords" THEN KeywordLists ELSE {<< >>} :
         LET r == handle_query(State, query, [cls |-> cls, fail1 |-> f1, fail2 |-> f2, kw |-> kw])
         IN /\ docs' = r.docs
            /\ vector_db' = r.vector_db
            /\ collection' = r.collection
            /\ op' = "handle_query"
            /\ args' = [NoArgs EXCEPT !.query = query, !.cls = cls]
            /\ calls' = r.calls
            /\ result' = r.result
            /\ pre' = Snapshot
            /\ UNCHANGED <<dirExists, batch, called>>

\* A strategy called directly (the four are public methods of the agent).
Direct(name, query, r) ==
  /\ op = "idle"
  /\ op' = name
  /\ args' = [NoArgs EXCEPT !.query = query]
  /\ calls' = r.calls
  /\ result' = r.result
  /\ pre' = Snapshot
  /\ UNCHANGED <<docs, vector_db, collection, dirExists, batch, called>>

SummarizePaper ==
  \E f \in 0..(Len(docs) + 1) : Direct("summarize_paper", "", summarize_paper(State, f))

SummarizeAbstract ==
  \E f \in 0..1 : Direct("summarize_abstract", "", summarize_abstract(State, f))

ExtractKeywords ==
  \E f \in 0..1, kw \in KeywordLists :
    Direct("extract_keywords", "", extract_keywords(State, f, kw))

AnswerQuestion ==
  \E query \in Queries, f \in 0..2 :
    Direct("answer_question", query, answer_question(State, query, f))

RouteQuery ==
  /\ op = "idle"
  /\ \E query \in Queries, dest \in RouteOutcomes :
       LET r == route_query(query, dest)
       IN /\ op' = "route_query"
          /\ args' = [NoArgs EXCEPT !.query = query, !.cls = dest]
          /\ calls' = r.calls
          /\ result' = r.result
          /\ pre' = Snapshot
          /\ UNCHANGED <<docs, vector_db, collection, dirExists, batch, called>>

Next ==
  \/ Restart
  \/ Reply
  \/ IngestDocument
  \/ HandleQuery
  \/ SummarizePaper
  \/ SummarizeAbstract
  \/ ExtractKeywords
  \/ AnswerQuestion
  \/ RouteQuery

Spec == Init /\ [][Next]_vars

(* ------------------------------ properties ---------------------------- *)
Range(s) == {s[i] : i \in 1..Len(s)}
CallsOf(kind) == {i \in 1..Len(calls) : calls[i].op = kind}
Generations(purpose) == {i \in CallsOf("generate") : calls[i].arg = purpose}
Entered(name) == {i \in CallsOf("strategy") : calls[i].arg = name}
FailedCalls == {i \in 1..Len(calls) : calls[i].op \in {"generate", "retrieve"} /\ ~calls[i].ok}
QueryOps == {"handle_query", "summarize_paper", "summarize_abstract",
             "extract_keywords", "answer_question"}
ContentOf(t) == SelectSeq(t, NotBlank)
FirstChunks(ds, k) == [i \in 1..(IF Len(ds) < k THEN Len(ds) ELSE k) |-> ds[i]]
CommaJoined(ws) ==
  IF Len(ws) = 0 THEN ""
  ELSE IF Len(ws) = 1 THEN ws[1]
  ELSE ws[1] \o ", " \o ws[2]

\* C1: route_query never raises and returns "data" or "research", "research"
\* whenever the classification call fails.
C1_RouteLabel ==
  op = "route_query" =>
    /\ result.kind = "return"
    /\ result.message \in {"data", "research"}
    /\ (args.cls \in {"ERROR", "NONE"} => result.message = "research")

\* C2: on an instance on which ingest_document has not been called,
\* handle_query returns the no-document result and makes no external call.
C2_NoDocumentBeforeIngest ==
  (op = "handle_query" /\ ~called) => (result = Ret(NoDocumentMsg) /\ calls = << >>)

\* C3: a rejected ingest_document call (unsupported type tag, or extracted text
\* that is empty or whitespace only) returns a text result and leaves the chunk
\* list, the index handle and the collection as they were; for an unsupported
\* tag no extraction is attempted.
UnsupportedCall == op = "ingest_document" /\ args.file_type \notin {"pdf", "docx"}
EmptyTextCall ==
  /\ op = "ingest_document"
  /\ args.file_type \in {"pdf", "docx"}
  /\ \E i \in CallsOf("extract") : calls[i].ok
  /\ \A i \in 1..Len(args.text) : args.text[i] = Blank
C3_RejectedIngestKeepsCorpus ==
  /\ UnsupportedCall =>
       /\ result = Ret(UnsupportedMsg)
       /\ CallsOf("extract") = {}
       /\ docs = pre.docs /\ vector_db = pre.vector_db /\ collection = pre.collection
  /\ EmptyTextCall =>
       /\ result = Ret(EmptyMsg)
       /\ docs = pre.docs /\ vector_db = pre.vector_db /\ collection = pre.collection
C3_Witness ==
  /\ EmptyTextCall
  /\ args.text = <<Blank>>
  /\ Len(pre.docs) = MaxChunks
  /\ pre.vector_db.open
  /\ docs = pre.docs
  /\ vector_db = pre.vector_db

\* C4: after a successful ingest_document the chunk list and the index hold
\* exactly the chunks of the document just ingested.
C4_CorpusIsLastDocument ==
  (op = "ingest_document" /\ result = Ret(IngestedMsg)) =>
    /\ docs = ContentOf(args.text)
    /\ {e.chunk : e \in collection} = Range(docs)
    /\ Cardinality(collection) = Len(docs)

\* C5: after ingest_document returns, the chunk list and the index handle are
\* both those of the new document or both those held before the call.
C5_AtomicReplacement ==
  op = "ingest_document" =>
    \/ docs = pre.docs /\ vector_db = pre.vector_db
    \/ docs = ContentOf(args.text) /\ vector_db.open /\ vector_db # pre.vector_db

\* C6: with a corpus present, a handle_query call enters exactly one strategy:
\* the one of the classified label, answer_question for any other label or a
\* failed classification.
StrategyFor(cls) ==
  IF cls = "summary" THEN "summarize_paper"
  ELSE IF cls = "keywords" THEN "extract_keywords"
  ELSE IF cls = "abstract" THEN "summarize_abstract"
  ELSE "answer_question"
C6_ExactlyOneStrategy ==
  (op = "handle_query" /\ pre.vector_db.open) =>
    /\ Cardinality(CallsOf("strategy")) = 1
    /\ \A i \in CallsOf("strategy") : calls[i].arg = StrategyFor(args.cls)

\* C7: a generation or retrieval call that fails inside the dispatched strategy
\* makes handle_query raise: nothing is called after it.
C7_StrategyFailurePropagates ==
  (op = "handle_query" /\ FailedCalls # {}) =>
    /\ result.kind = "raise"
    /\ \A i \in FailedCalls : i = Len(calls)

\* C8 as stated: extract_keywords on n chunks makes one generation call over
\* the first min(n, 4) chunks and returns the list comma-joined.
C8_OneKeywordCall ==
  Entered("extract_keywords") # {} =>
    /\ Cardinality(Generations("keywords")) = 1
    /\ \A i \in Generations("keywords") :
         /\ calls[i].ctx = FirstChunks(pre.docs, 4)
         /\ (calls[i].ok => result = Ret(CommaJoined(calls[i].out)))

\* C8 amended: on n >= 1 chunks extract_keywords makes exactly one generation
\* call, over the first min(n, 4) chunks in document order, and when that call
\* succeeds the result is its keyword list comma-joined; on no chunks it makes
\* no generation call and returns the no-content message.
C8_KeywordsOverFirstFour ==
  Entered("extract_keywords") # {} =>
    IF pre.docs = << >>
      THEN Generations("keywords") = {} /\ result = Ret(NoContentMsg)
      ELSE /\ Cardinality(Generations("keywords")) = 1
           /\ \A i \in Generations("keywords") :
                /\ calls[i].ctx = FirstChunks(pre.docs, 4)
                /\ (calls[i].ok => result = Ret(CommaJoined(calls[i].out)))
C8_Witness ==
  /\ op = "extract_keywords"
  /\ Len(pre.docs) = 6
  /\ \E i \in Generations("keywords") :
       /\ calls[i].ctx = <<Para(6, 1), Para(6, 2), Para(6, 3), Para(6, 4)>>
       /\ calls[i].out = <<"rag", "llm">>
  /\ result = Ret("rag, llm")

\* C9: a handle_query call classified as abstract makes a single generation
\* call, over the first chunk only, and no retrieval call.
C9_AbstractUsesFirstChunkOnly ==
  (op = "handle_query" /\ args.cls = "abstract" /\ pre.vector_db.open /\ pre.docs # << >>) =>
    /\ Cardinality(CallsOf("generate")) = 1
    /\ \A i \in CallsOf("generate") : calls[i].ctx = <<pre.docs[1]>>
    /\ CallsOf("retrieve") = {}

\* C10: handle_query and the four strategies leave the chunk list, the index
\* handle and the collection as they were, whatever the classification and
\* whichever downstream call fails.
C10_QueriesReadOnly ==
  op \in QueryOps =>
    (docs = pre.docs /\ vector_db = pre.vector_db /\ collection = pre.collection)
C10_Witness ==
  /\ op = "handle_query"
  /\ args.cls = "summary"
  /\ FailedCalls # {}
  /\ result.kind = "raise"
  /\ Len(docs) = MaxChunks
  /\ vector_db.open
====
